---- MODULE Spec2Model ----
(***************************************************************************)
(* Model of propositions/operators.py: the five syntactic converters of    *)
(* propositional formulas to restricted operator bases.                    *)
(*                                                                         *)
(* A Formula object is modelled as a tuple whose first element is the root *)
(* tag: <<root>> for a variable or a constant, <<"~", first>> for a unary  *)
(* node and <<root, first, second>> for a binary node.  The state machine  *)
(* is a caller that holds a formula, calls one of the converters on it,    *)
(* and may hand the returned formula to a second converter call.           *)
(***************************************************************************)
EXTENDS Integers, Sequences, FiniteSets, TLC

VARIABLES
    formula,    \* the formula the caller starts from
    input,      \* the argument of the last converter call
    converter,  \* the names of the converters called so far, in order
    result,     \* what the last call returned, or ValueError if it raised
    calls,      \* invocations made by the last call: <<stage one, stage two>>
    depth       \* deepest nesting of invocations in it: <<stage one, stage two>>

vars == <<formula, input, converter, result, calls, depth>>

(* ------------------------------ bounds --------------------------------- *)

\* Largest number of nodes of a formula of the declared grammar that the
\* caller starts from.
MaxNodes == 3

\* Largest number of nodes of a returned formula that the caller hands to a
\* second converter call.
MaxChainedNodes == 13

\* Largest number of nodes of a formula that contains an unrecognized
\* binary operator.
MaxUnknownNodes == 5

\* Largest number of nodes of a formula built from variables and "<->" only.
MaxNestedNodes == 5

(* ------------------------ propositions.syntax -------------------------- *)

\* Variable names of the model; "p" is the name the converters use for the
\* helper variable.
VariableNames == {"p", "q"}

Constants == {"T", "F"}

BinaryOperators == {"&", "|", "->", "+", "<->", "-&", "-|"}

\* Operator tags no converter recognizes.
UnknownOperators == {"?"}

is_variable(s) == s \in VariableNames

is_constant(s) == s \in Constants

is_unary(s) == s = "~"

is_binary(s) == s \in BinaryOperators

\* Formula(root), Formula(root, first), Formula(root, first, second).
Formula0(root) == <<root>>

Formula1(root, first) == <<root, first>>

Formula2(root, first, second) == <<root, first, second>>

\* Formula.variables(): the variable names of a formula.
RECURSIVE variables(_)
variables(f) ==
    IF Len(f) = 1 THEN (IF is_variable(f[1]) THEN {f[1]} ELSE {})
    ELSE IF Len(f) = 2 THEN variables(f[2])
    ELSE variables(f[2]) \cup variables(f[3])

\* Formula.operators(): the operator and constant tags of a formula.
RECURSIVE operators(_)
operators(f) ==
    IF Len(f) = 1 THEN (IF is_variable(f[1]) THEN {} ELSE {f[1]})
    ELSE IF Len(f) = 2 THEN {f[1]} \cup operators(f[2])
    ELSE {f[1]} \cup operators(f[2]) \cup operators(f[3])

\* The outcome of a call that raised ValueError('Unknown operator: ...').
ValueError == <<"ValueError">>

(* ----------------------- propositions.semantics ------------------------ *)

truth(root, a, b) ==
    CASE root = "&"   -> a /\ b
      [] root = "|"   -> a \/ b
      [] root = "->"  -> ~a \/ b
      [] root = "+"   -> a # b
      [] root = "<->" -> a = b
      [] root = "-&"  -> ~(a /\ b)
      [] root = "-|"  -> ~(a \/ b)

RECURSIVE evaluate(_, _)
evaluate(f, model) ==
    IF is_variable(f[1]) THEN model[f[1]]
    ELSE IF is_constant(f[1]) THEN f[1] = "T"
    ELSE IF is_unary(f[1]) THEN ~evaluate(f[2], model)
    ELSE truth(f[1], evaluate(f[2], model), evaluate(f[3], model))

\* all_models over the variable names of the model, the helper variable
\* included.
Models == [VariableNames -> BOOLEAN]

(* ---------------------------- to_not_and_or ---------------------------- *)

\* A bug: a double negation is simplified away.
negation_of_simplifying(inner) ==
    IF inner = ValueError THEN ValueError
    ELSE IF inner[1] = "~" THEN inner[2]
    ELSE Formula1("~", inner)

\* An exception raised while an operand is converted propagates: no node is
\* built around it.
negation_of(inner) ==
    IF inner = ValueError THEN ValueError ELSE Formula1("~", inner)

\* A bug: a root that is none of the recognized operators is converted as
\* if it were "&" instead of raising.
not_and_or_binary_defaulting(root, first, second) ==
    IF first = ValueError \/ second = ValueError THEN ValueError
    ELSE IF root = "|" THEN Formula2("|", first, second)
    ELSE IF root = "->" THEN Formula2("|", Formula1("~", first), second)
    ELSE IF root = "+" THEN
        Formula2("|", Formula2("&", first, Formula1("~", second)),
                      Formula2("&", Formula1("~", first), second))
    ELSE IF root = "<->" THEN
        Formula2("|", Formula2("&", first, second),
                      Formula2("&", Formula1("~", first), Formula1("~", second)))
    ELSE IF root = "-&" THEN Formula1("~", Formula2("&", first, second))
    ELSE IF root = "-|" THEN Formula1("~", Formula2("|", first, second))
    ELSE Formula2("&", first, second)

\* The dispatch on the root of a binary node, given its converted operands.
not_and_or_binary(root, first, second) ==
    IF first = ValueError \/ second = ValueError THEN ValueError
    ELSE IF root = "&" THEN Formula2("&", first, second)
    ELSE IF root = "|" THEN Formula2("|", first, second)
    ELSE IF root = "->" THEN Formula2("|", Formula1("~", first), second)
    ELSE IF root = "+" THEN
        Formula2("|", Formula2("&", first, Formula1("~", second)),
                      Formula2("&", Formula1("~", first), second))
    ELSE IF root = "<->" THEN
        Formula2("|", Formula2("&", first, second),
                      Formula2("&", Formula1("~", first), Formula1("~", second)))
    ELSE IF root = "-&" THEN Formula1("~", Formula2("&", first, second))
    ELSE IF root = "-|" THEN Formula1("~", Formula2("|", first, second))
    ELSE ValueError

not_and_or_constant(root, p) ==
    IF root = "T" THEN Formula2("|", p, Formula1("~", p))
    ELSE Formula2("&", p, Formula1("~", p))

RECURSIVE to_not_and_or(_)
to_not_and_or(f) ==
    IF is_variable(f[1]) THEN f
    ELSE IF is_constant(f[1]) THEN not_and_or_constant(f[1], Formula0("p"))
    ELSE IF is_unary(f[1]) THEN negation_of(to_not_and_or(f[2]))
    ELSE not_and_or_binary(f[1], to_not_and_or(f[2]), to_not_and_or(f[3]))

(* ------------------------------ to_not_and ----------------------------- *)

not_and_xor(left, right) ==
    Formula1("~", Formula2("&", Formula1("~", left), Formula1("~", right)))

\* The dispatch on the root of a binary node, given its converted operands
\* and, for "<->", the conversion xor of the "+" node over the same operands.
not_and_binary(root, first, second, xor) ==
    IF first = ValueError \/ second = ValueError THEN ValueError
    ELSE IF root = "&" THEN Formula2("&", first, second)
    ELSE IF root = "|" THEN
        Formula1("~", Formula2("&", Formula1("~", first), Formula1("~", second)))
    ELSE IF root = "->" THEN
        Formula1("~", Formula2("&", first, Formula1("~", second)))
    ELSE IF root = "+" THEN
        not_and_xor(Formula2("&", first, Formula1("~", second)),
                    Formula2("&", Formula1("~", first), second))
    ELSE IF root = "<->" THEN Formula1("~", xor)
    ELSE IF root = "-&" THEN Formula1("~", Formula2("&", first, second))
    ELSE IF root = "-|" THEN
        Formula2("&", Formula1("~", first), Formula1("~", second))
    ELSE ValueError

\* A bug: the contradiction is built with its operands in the other order.
not_and_constant_reordered(root, contradiction) ==
    IF root = "F" THEN Formula2("&", contradiction[3], contradiction[2])
    ELSE Formula1("~", Formula2("&", contradiction[3], contradiction[2]))

not_and_constant(root, contradiction) ==
    IF root = "F" THEN contradiction ELSE Formula1("~", contradiction)

RECURSIVE to_not_and(_)
to_not_and(f) ==
    IF is_variable(f[1]) THEN f
    ELSE IF is_constant(f[1]) THEN
        not_and_constant(f[1], Formula2("&", Formula0("p"), Formula1("~", Formula0("p"))))
    ELSE IF is_unary(f[1]) THEN negation_of(to_not_and(f[2]))
    ELSE not_and_binary(f[1], to_not_and(f[2]), to_not_and(f[3]),
                        IF f[1] = "<->" THEN to_not_and(Formula2("+", f[2], f[3]))
                        ELSE ValueError)

(* ------------------------------- to_nand ------------------------------- *)

\* A bug: the double negation of the NAND is forgotten.
nand_once(nand) == nand

nand_twice(nand) == Formula2("-&", nand, nand)

RECURSIVE convert(_)
convert(f) ==
    IF is_variable(f[1]) THEN f
    ELSE IF is_unary(f[1]) THEN nand_twice(convert(f[2]))
    ELSE nand_twice(Formula2("-&", convert(f[2]), convert(f[3])))

\* A bug: the second stage is skipped.
convert_stage_skipped(not_and) == not_and

\* The second stage runs only when the first returned.
convert_stage(not_and) ==
    IF not_and = ValueError THEN ValueError ELSE convert(not_and)

to_nand(f) == convert_stage(to_not_and(f))

(* ---------------------------- to_implies_not --------------------------- *)

\* A bug: the operands of the implication are swapped.
imp_swapped(a, b) == Formula2("->", b, a)

imp(a, b) == Formula2("->", a, b)

neg(a) == Formula1("~", a)

\* A bug: the tautology is built over another variable than the one given.
implies_not_constant_q(root, t) ==
    IF root = "T" THEN Formula2("->", Formula0("q"), Formula0("q"))
    ELSE Formula1("~", Formula2("->", Formula0("q"), Formula0("q")))

implies_not_constant(root, t) == IF root = "T" THEN t ELSE neg(t)

\* The dispatch on the root of a binary node, given its converted operands.
implies_not_binary(root, first, second) ==
    IF first = ValueError \/ second = ValueError THEN ValueError
    ELSE IF root = "->" THEN imp(first, second)
    ELSE IF root = "|" THEN imp(neg(first), second)
    ELSE IF root = "&" THEN neg(imp(first, neg(second)))
    ELSE IF root = "+" THEN imp(imp(first, second), neg(imp(second, first)))
    ELSE IF root = "<->" THEN neg(imp(imp(first, second), neg(imp(second, first))))
    ELSE IF root = "-&" THEN imp(first, neg(second))
    ELSE IF root = "-|" THEN neg(imp(neg(first), second))
    ELSE ValueError

RECURSIVE to_implies_not(_)
to_implies_not(f) ==
    IF is_variable(f[1]) THEN f
    ELSE IF is_constant(f[1]) THEN
        implies_not_constant(f[1], imp(Formula0("p"), Formula0("p")))
    ELSE IF is_unary(f[1]) THEN negation_of(to_implies_not(f[2]))
    ELSE implies_not_binary(f[1], to_implies_not(f[2]), to_implies_not(f[3]))

(* --------------------------- to_implies_false -------------------------- *)

RECURSIVE eliminate(_)
eliminate(f) ==
    IF is_variable(f[1]) THEN f
    ELSE IF is_unary(f[1]) THEN Formula2("->", eliminate(f[2]), Formula0("F"))
    ELSE Formula2("->", eliminate(f[2]), eliminate(f[3]))

\* A bug: the second stage is skipped.
eliminate_stage_skipped(implies_not) == implies_not

\* The second stage runs only when the first returned.
eliminate_stage(implies_not) ==
    IF implies_not = ValueError THEN ValueError ELSE eliminate(implies_not)

to_implies_false(f) == eliminate_stage(to_implies_not(f))

(* ------------------- recursive invocations of a call ------------------- *)

Max(a, b) == IF a >= b THEN a ELSE b

\* Number of invocations of to_not_and_or made by the call to_not_and_or(f),
\* the outermost one included.
RECURSIVE calls_to_not_and_or(_)
calls_to_not_and_or(f) ==
    IF is_variable(f[1]) \/ is_constant(f[1]) THEN 1
    ELSE IF is_unary(f[1]) THEN 1 + calls_to_not_and_or(f[2])
    ELSE 1 + calls_to_not_and_or(f[2])
           + (IF to_not_and_or(f[2]) = ValueError THEN 0
              ELSE calls_to_not_and_or(f[3]))

\* Largest number of invocations of to_not_and_or active at once during the
\* call to_not_and_or(f).
RECURSIVE depth_to_not_and_or(_)
depth_to_not_and_or(f) ==
    IF is_variable(f[1]) \/ is_constant(f[1]) THEN 1
    ELSE IF is_unary(f[1]) THEN 1 + depth_to_not_and_or(f[2])
    ELSE 1 + Max(depth_to_not_and_or(f[2]),
                 IF to_not_and_or(f[2]) = ValueError THEN 0
                 ELSE depth_to_not_and_or(f[3]))

RECURSIVE calls_to_not_and(_)
calls_to_not_and(f) ==
    IF is_variable(f[1]) \/ is_constant(f[1]) THEN 1
    ELSE IF is_unary(f[1]) THEN 1 + calls_to_not_and(f[2])
    ELSE 1 + calls_to_not_and(f[2])
           + (IF to_not_and(f[2]) = ValueError THEN 0
              ELSE calls_to_not_and(f[3])
                   + (IF f[1] = "<->" /\ to_not_and(f[3]) # ValueError
                      THEN calls_to_not_and(Formula2("+", f[2], f[3]))
                      ELSE 0))

RECURSIVE depth_to_not_and(_)
depth_to_not_and(f) ==
    IF is_variable(f[1]) \/ is_constant(f[1]) THEN 1
    ELSE IF is_unary(f[1]) THEN 1 + depth_to_not_and(f[2])
    ELSE 1 + Max(depth_to_not_and(f[2]),
                 IF to_not_and(f[2]) = ValueError THEN 0
                 ELSE Max(depth_to_not_and(f[3]),
                          IF f[1] = "<->" /\ to_not_and(f[3]) # ValueError
                          THEN depth_to_not_and(Formula2("+", f[2], f[3]))
                          ELSE 0))

RECURSIVE calls_convert(_)
calls_convert(f) ==
    IF is_variable(f[1]) THEN 1
    ELSE IF is_unary(f[1]) THEN 1 + calls_convert(f[2])
    ELSE 1 + calls_convert(f[2]) + calls_convert(f[3])

RECURSIVE depth_convert(_)
depth_convert(f) ==
    IF is_variable(f[1]) THEN 1
    ELSE IF is_unary(f[1]) THEN 1 + depth_convert(f[2])
    ELSE 1 + Max(depth_convert(f[2]), depth_convert(f[3]))

calls_convert_stage(not_and) ==
    IF not_and = ValueError THEN 0 ELSE calls_convert(not_and)

depth_convert_stage(not_and) ==
    IF not_and = ValueError THEN 0 ELSE depth_convert(not_and)

RECURSIVE calls_to_implies_not(_)
calls_to_implies_not(f) ==
    IF is_variable(f[1]) \/ is_constant(f[1]) THEN 1
    ELSE IF is_unary(f[1]) THEN 1 + calls_to_implies_not(f[2])
    ELSE 1 + calls_to_implies_not(f[2])
           + (IF to_implies_not(f[2]) = ValueError THEN 0
              ELSE calls_to_implies_not(f[3]))

\* A bug: only the first operand of a binary node is descended into.
RECURSIVE depth_first_operand_only(_)
depth_first_operand_only(f) ==
    IF is_variable(f[1]) \/ is_constant(f[1]) THEN 1
    ELSE 1 + depth_first_operand_only(f[2])

RECURSIVE depth_to_implies_not(_)
depth_to_implies_not(f) ==
    IF is_variable(f[1]) \/ is_constant(f[1]) THEN 1
    ELSE IF is_unary(f[1]) THEN 1 + depth_to_implies_not(f[2])
    ELSE 1 + Max(depth_to_implies_not(f[2]),
                 IF to_implies_not(f[2]) = ValueError THEN 0
                 ELSE depth_to_implies_not(f[3]))

RECURSIVE calls_eliminate(_)
calls_eliminate(f) ==
    IF is_variable(f[1]) THEN 1
    ELSE IF is_unary(f[1]) THEN 1 + calls_eliminate(f[2])
    ELSE 1 + calls_eliminate(f[2]) + calls_eliminate(f[3])

RECURSIVE depth_eliminate(_)
depth_eliminate(f) ==
    IF is_variable(f[1]) THEN 1
    ELSE IF is_unary(f[1]) THEN 1 + depth_eliminate(f[2])
    ELSE 1 + Max(depth_eliminate(f[2]), depth_eliminate(f[3]))

calls_eliminate_stage(implies_not) ==
    IF implies_not = ValueError THEN 0 ELSE calls_eliminate(implies_not)

depth_eliminate_stage(implies_not) ==
    IF implies_not = ValueError THEN 0 ELSE depth_eliminate(implies_not)

(* ------------------------------ the inputs ----------------------------- *)

Leaves == {Formula0(s) : s \in VariableNames \cup Constants}

VariableLeaves == {Formula0(s) : s \in VariableNames}

\* The formulas with exactly Len(sized) + 1 nodes whose binary nodes carry a
\* tag of ops, given in sized[k] the formulas with exactly k nodes.
NextSize(sized, ops) ==
    {Formula1("~", a) : a \in sized[Len(sized)]}
    \cup UNION {{Formula2(op, a, b) : op \in ops,
                                      a \in sized[k],
                                      b \in sized[Len(sized) - k]}
                : k \in 1..(Len(sized) - 1)}

RECURSIVE FormulasBySize(_, _, _)
FormulasBySize(sized, n, ops) ==
    IF Len(sized) >= n THEN sized
    ELSE FormulasBySize(Append(sized, NextSize(sized, ops)), n, ops)

UnionOf(sized) == UNION {sized[k] : k \in 1..Len(sized)}

\* The formulas over leaves with at most n nodes whose binary nodes carry a
\* tag of ops.
FormulasUpTo(leaves, n, ops) == UnionOf(FormulasBySize(<<leaves>>, n, ops))

\* The formulas of the declared grammar with at most MaxNodes nodes.
Formulas == FormulasUpTo(Leaves, MaxNodes, BinaryOperators)

\* Every node is of a kind the declared grammar has.
RECURSIVE well_formed(_)
well_formed(f) ==
    IF is_variable(f[1]) \/ is_constant(f[1]) THEN TRUE
    ELSE IF is_unary(f[1]) THEN well_formed(f[2])
    ELSE is_binary(f[1]) /\ well_formed(f[2]) /\ well_formed(f[3])

(* ---------------------------- state machine ---------------------------- *)

\* No call has returned yet.
NoResult == <<>>

NoCallYet ==
    /\ input = NoResult
    /\ converter = <<>>
    /\ result = NoResult
    /\ calls = <<0, 0>>
    /\ depth = <<0, 0>>

Init ==
    /\ formula \in Formulas
    /\ NoCallYet

\* formula has one node more than the largest formulas of sized, or is one
\* of the formulas of sized; sized[k] holds the formulas with k nodes.
Drawn(sized, ops) ==
    \/ formula \in UnionOf(sized)
    \/ \E a \in sized[Len(sized)] : formula = Formula1("~", a)
    \/ \E k \in 1..(Len(sized) - 1) :
           \E op \in ops, a \in sized[k], b \in sized[Len(sized) - k] :
               formula = Formula2(op, a, b)

\* The caller's formula is one of Init, or has at most MaxUnknownNodes nodes
\* of which some binary node carries an unrecognized tag.
InitUnknown ==
    /\ \/ formula \in Formulas
       \/ /\ Drawn(FormulasBySize(<<Leaves>>, MaxUnknownNodes - 1,
                                  BinaryOperators \cup UnknownOperators),
                   BinaryOperators \cup UnknownOperators)
          /\ ~well_formed(formula)
    /\ NoCallYet

\* The caller's formula is built from variables, "~" and "<->" and has at
\* most MaxNestedNodes nodes.
InitNested ==
    /\ formula \in FormulasUpTo(VariableLeaves, MaxNestedNodes, {"<->"})
    /\ NoCallYet

\* budget less the number of nodes of f, or -1 if f has more nodes than that.
RECURSIVE Remaining(_, _)
Remaining(f, budget) ==
    IF budget < 1 THEN -1
    ELSE IF Len(f) = 1 THEN budget - 1
    ELSE IF Len(f) = 2 THEN Remaining(f[2], budget - 1)
    ELSE Remaining(f[3], Remaining(f[2], budget - 1))

\* The caller calls a converter on its formula, and may call a second one
\* on the formula the first returned.
CanCall ==
    \/ Len(converter) = 0
    \/ /\ Len(converter) = 1
       /\ result # ValueError
       /\ Remaining(result, MaxChainedNodes) >= 0

Argument == IF Len(converter) = 0 THEN formula ELSE result

Call_to_not_and_or ==
    /\ CanCall
    /\ input' = Argument
    /\ converter' = Append(converter, "to_not_and_or")
    /\ result' = to_not_and_or(Argument)
    /\ calls' = <<calls_to_not_and_or(Argument), 0>>
    /\ depth' = <<depth_to_not_and_or(Argument), 0>>
    /\ UNCHANGED formula

Call_to_not_and ==
    /\ CanCall
    /\ input' = Argument
    /\ converter' = Append(converter, "to_not_and")
    /\ result' = to_not_and(Argument)
    /\ calls' = <<calls_to_not_and(Argument), 0>>
    /\ depth' = <<depth_to_not_and(Argument), 0>>
    /\ UNCHANGED formula

Call_to_nand ==
    /\ CanCall
    /\ input' = Argument
    /\ converter' = Append(converter, "to_nand")
    /\ result' = to_nand(Argument)
    /\ calls' = <<calls_to_not_and(Argument),
                  calls_convert_stage(to_not_and(Argument))>>
    /\ depth' = <<depth_to_not_and(Argument),
                  depth_convert_stage(to_not_and(Argument))>>
    /\ UNCHANGED formula

Call_to_implies_not ==
    /\ CanCall
    /\ input' = Argument
    /\ converter' = Append(converter, "to_implies_not")
    /\ result' = to_implies_not(Argument)
    /\ calls' = <<calls_to_implies_not(Argument), 0>>
    /\ depth' = <<depth_to_implies_not(Argument), 0>>
    /\ UNCHANGED formula

Call_to_implies_false ==
    /\ CanCall
    /\ input' = Argument
    /\ converter' = Append(converter, "to_implies_false")
    /\ result' = to_implies_false(Argument)
    /\ calls' = <<calls_to_implies_not(Argument),
                  calls_eliminate_stage(to_implies_not(Argument))>>
    /\ depth' = <<depth_to_implies_not(Argument),
                  depth_eliminate_stage(to_implies_not(Argument))>>
    /\ UNCHANGED formula

Next ==
    \/ Call_to_not_and_or
    \/ Call_to_not_and
    \/ Call_to_nand
    \/ Call_to_implies_not
    \/ Call_to_implies_false

\* The caller starts from a formula of the declared grammar.
Spec == Init /\ [][Next]_vars

\* The caller may also start from a formula with an unrecognized operator.
SpecUnknown == InitUnknown /\ [][Next]_vars

\* The caller starts from nested biconditionals.
SpecNested == InitNested /\ [][Next]_vars

(* ------------------------------- claims -------------------------------- *)

Last == converter[Len(converter)]

Called == Len(converter) > 0

\* The number of nodes on the longest path from the root to a leaf.
RECURSIVE Height(_)
Height(f) ==
    IF Len(f) = 1 THEN 1
    ELSE IF Len(f) = 2 THEN 1 + Height(f[2])
    ELSE 1 + Max(Height(f[2]), Height(f[3]))

RECURSIVE Nodes(_)
Nodes(f) ==
    IF Len(f) = 1 THEN 1
    ELSE IF Len(f) = 2 THEN 1 + Nodes(f[2])
    ELSE 1 + Nodes(f[2]) + Nodes(f[3])

Equivalent(f, g) == \A model \in Models : evaluate(f, model) = evaluate(g, model)

\* The target basis each converter declares.
Basis(name) ==
    CASE name = "to_not_and_or"    -> {"~", "&", "|"}
      [] name = "to_not_and"       -> {"~", "&"}
      [] name = "to_nand"          -> {"-&"}
      [] name = "to_implies_not"   -> {"->", "~"}
      [] name = "to_implies_false" -> {"->", "F"}

\* C1: whichever converter was called, on whatever formula (one that uses
\* the variable "p" itself included), the argument and the returned formula
\* have the same truth value under every assignment to the variables and to
\* the helper variable "p".
C1_SemanticEquivalence == Called => Equivalent(input, result)

\* A converter ran on a formula that itself uses "p" next to a constant.
C1_Witness ==
    /\ converter = <<"to_implies_false">>
    /\ "p" \in variables(input)
    /\ "F" \in operators(input)
    /\ Equivalent(input, result)

\* C2: the operator and constant tags of the returned formula all belong to
\* the basis of the converter that was called.
C2_BasisClosure == Called => operators(result) \subseteq Basis(Last)

\* to_nand ran on a formula with a constant and an operator outside its
\* basis.
C2_Witness ==
    /\ converter = <<"to_nand">>
    /\ "T" \in operators(input)
    /\ "<->" \in operators(input)
    /\ operators(result) = {"-&"}

\* C3: to_nand called on what to_not_and returned yields a formula with no
\* tag but "-&" that is equivalent to the original formula, and
\* to_implies_false called on what to_implies_not returned yields a formula
\* over "->" and "F" only that is equivalent to the original formula.
C3_ChainedConverters ==
    /\ converter = <<"to_not_and", "to_nand">>
           => operators(result) \subseteq {"-&"} /\ Equivalent(formula, result)
    /\ converter = <<"to_implies_not", "to_implies_false">>
           => operators(result) \subseteq {"->", "F"} /\ Equivalent(formula, result)

\* The output of to_not_and for a disjunction went through to_nand.
C3_Witness ==
    /\ converter = <<"to_not_and", "to_nand">>
    /\ formula[1] = "|"
    /\ operators(result) = {"-&"}

\* C4: a call raises ValueError, returning no formula, exactly when its
\* argument has a binary node with an unrecognized tag: always for such an
\* argument, never for a formula of the declared grammar.
C4_UnknownOperator == Called => (result = ValueError <=> ~well_formed(input))

\* The unrecognized node is the second operand of a recognized binary node
\* whose first operand converts without error.
C4_Witness ==
    /\ converter = <<"to_implies_false">>
    /\ Len(formula) = 3
    /\ is_binary(formula[1])
    /\ well_formed(formula[2])
    /\ ~well_formed(formula[3])
    /\ result = ValueError

\* C5: the invocations a call makes in each stage are linear in the size of
\* the stage's argument: no node is converted more than a fixed number of
\* times.  Lines 77, 78 and 90 convert the operands of a node twice, and
\* line 90 adds one invocation on the "+" node it builds, three invocations
\* per node in all.
C5_LinearWork == Called => calls[1] <= 3 * Nodes(input)

\* C6 as claimed: the deepest nesting of invocations, in either stage, is
\* the height of the argument.
C6_DepthIsHeight == Called => Max(depth[1], depth[2]) = Height(input)

\* The height of f with every "<->" node counted twice.
RECURSIVE HeightBiconditionalTwice(_)
HeightBiconditionalTwice(f) ==
    IF Len(f) = 1 THEN 1
    ELSE IF Len(f) = 2 THEN 1 + HeightBiconditionalTwice(f[2])
    ELSE (IF f[1] = "<->" THEN 2 ELSE 1)
         + Max(HeightBiconditionalTwice(f[2]), HeightBiconditionalTwice(f[3]))

\* C6 amended: in to_not_and_or and to_implies_not (the first stage of
\* to_implies_false included) the deepest nesting of invocations is the
\* height of the argument; in to_not_and (the first stage of to_nand
\* included) it is that height with every "<->" node counted twice; in the
\* second stage of to_nand and of to_implies_false it is the height of the
\* formula the first stage returned.
C6_DepthAmended ==
    Called =>
        /\ Last \in {"to_not_and_or", "to_implies_not", "to_implies_false"}
               => depth[1] = Height(input)
        /\ Last \in {"to_not_and", "to_nand"}
               => depth[1] = HeightBiconditionalTwice(input)
        /\ Last = "to_nand" => depth[2] = Height(to_not_and(input))
        /\ Last = "to_implies_false" => depth[2] = Height(to_implies_not(input))
        /\ Last \in {"to_not_and_or", "to_not_and", "to_implies_not"}
               => depth[2] = 0

\* to_nand ran on a biconditional: its first stage nests one deeper than
\* the height, its second stage as deep as the first stage's output is high.
C6_Witness ==
    /\ converter = <<"to_nand">>
    /\ input[1] = "<->"
    /\ depth[1] = Height(input) + 1
    /\ depth[2] > depth[1]

\* The case table of to_not_and for a binary node, over converted operands.
RECURSIVE not_and_case(_, _, _)
not_and_case(root, a, b) ==
    CASE root = "&"   -> <<"&", a, b>>
      [] root = "|"   -> <<"~", <<"&", <<"~", a>>, <<"~", b>>>>>>
      [] root = "->"  -> <<"~", <<"&", a, <<"~", b>>>>>>
      [] root = "+"   -> <<"~", <<"&", <<"~", <<"&", a, <<"~", b>>>>>>,
                                       <<"~", <<"&", <<"~", a>>, b>>>>>>>>
      [] root = "<->" -> <<"~", not_and_case("+", a, b)>>
      [] root = "-&"  -> <<"~", <<"&", a, b>>>>
      [] root = "-|"  -> <<"&", <<"~", a>>, <<"~", b>>>>

RECURSIVE not_and_table(_)
not_and_table(f) ==
    IF Len(f) = 1 THEN
        CASE f[1] = "F" -> <<"&", <<"p">>, <<"~", <<"p">>>>>>
          [] f[1] = "T" -> <<"~", <<"&", <<"p">>, <<"~", <<"p">>>>>>>>
          [] OTHER -> f
    ELSE IF Len(f) = 2 THEN <<"~", not_and_table(f[2])>>
    ELSE not_and_case(f[1], not_and_table(f[2]), not_and_table(f[3]))

\* C7: to_not_and returns exactly the tree of the case table, and that tree
\* has no "|" node.
C7_NotAndTable ==
    Called /\ Last = "to_not_and"
        => result = not_and_table(input) /\ "|" \notin operators(result)

\* to_not_and ran on a biconditional with a constant operand.
C7_Witness ==
    /\ converter = <<"to_not_and">>
    /\ input[1] = "<->"
    /\ "T" \in operators(input)
    /\ result = not_and_table(input)

\* The NAND encoding E of a formula over "~" and "&".
RECURSIVE nand_encoding(_)
nand_encoding(g) ==
    IF Len(g) = 1 THEN g
    ELSE IF Len(g) = 2 THEN <<"-&", nand_encoding(g[2]), nand_encoding(g[2])>>
    ELSE <<"-&", <<"-&", nand_encoding(g[2]), nand_encoding(g[3])>>,
                 <<"-&", nand_encoding(g[2]), nand_encoding(g[3])>>>>

\* C8: to_nand returns exactly the NAND encoding of what to_not_and returns
\* for the same argument.
C8_NandEncoding ==
    Called /\ Last = "to_nand" => result = nand_encoding(to_not_and(input))

\* to_nand ran on a NOR, whose conversion by to_not_and has both "~" and "&".
C8_Witness ==
    /\ converter = <<"to_nand">>
    /\ input[1] = "-|"
    /\ operators(to_not_and(input)) = {"~", "&"}
    /\ result = nand_encoding(to_not_and(input))

\* C9: to_not_and_or, to_not_and and to_implies_not return unchanged an
\* argument that uses only operators of their basis and no constant, so a
\* second call on the output of the first returns it unchanged; and every
\* converter returns a variable unchanged.
C9_FixedPoint ==
    Called =>
        /\ Last \in {"to_not_and_or", "to_not_and", "to_implies_not"}
           /\ operators(input) \subseteq Basis(Last)
               => result = input
        /\ Len(converter) = 2 /\ converter[1] = converter[2]
           /\ Last \in {"to_not_and_or", "to_not_and", "to_implies_not"}
               => result = input
        /\ is_variable(input[1]) => result = input

\* to_implies_not ran a second time, on its own output for an exclusive or.
C9_Witness ==
    /\ converter = <<"to_implies_not", "to_implies_not">>
    /\ formula[1] = "+"
    /\ input # formula
    /\ result = input

\* C10: the variables of the returned formula are those of the argument,
\* with "p" added exactly when the argument has a constant.
C10_VariableSet ==
    Called =>
        variables(result) =
            variables(input)
            \cup (IF operators(input) \cap Constants # {} THEN {"p"} ELSE {})

\* A converter ran on a formula over "q" and a constant: "p" comes in.
C10_Witness ==
    /\ converter = <<"to_implies_not">>
    /\ variables(input) = {"q"}
    /\ "T" \in operators(input)
    /\ variables(result) = {"p", "q"}

====
